---- MODULE Spec2Model ----
(***************************************************************************)
(* km232: keyboard + mouse relay to a Hagstrom USB-KM232 / ASC232 encoder  *)
(* over a serial port (src/source/main.cpp).                               *)
(*                                                                         *)
(* The program is single-threaded.  pc is the position of main and of the  *)
(* handler it is running; ss is the position inside SerialSend while a     *)
(* handler is blocked in it.  sent, rets, printed, io, ev and pre observe  *)
(* the handler that is running or that has just returned; open, lastDown,  *)
(* runDowns, runMakes, lastButtons and outstanding are history over the    *)
(* whole run.                                                              *)
(***************************************************************************)
EXTENDS Integers, Sequences, FiniteSets

\* History kept for the properties, per key identifier k:
\*   open[k]      make commands issued for k minus break commands issued for
\*                k, since the last BufferClear a focus loss issued
\*   lastDown[k]  the last KeyDown/KeyUp event for k was a KeyDown, and no
\*                focus loss has emptied the key list since
\*   runDowns[k]  KeyDown(k) events since the last KeyUp(k) event or focus-loss
\*                reset: 0, 1, or 2 for two or more
\*   runMakes[k]  make commands issued for k in that run of KeyDown(k) events
\*   makeByte[k]  the byte of the make command issued for k that is still
\*                open (no KeyUp(k) and no focus-loss reset since), 0 if none
\*   lostHeld[k]  k was in the key list that the last focus-loss reset
\*                emptied, and no KeyDown(k) or KeyUp(k) came since
\* and per scan code c:
\*   wireOpen[c]  commands with byte c issued by key events minus commands
\*                with byte c + USB_BREAK, since the last BufferClear
\* abortedTo is the target of the last Move if a timeout cut it short of its
\* target and no mouse button event came since, NoPoint otherwise.
\* iters counts the entries into the body of the Move loop during the
\* handling of the current Move event (0 outside one).
\* primOwed is the number of primary-button makes (0x49) issued minus the
\* number of primary-button breaks (0x49+128) issued since the start;
\* primSince is the number of makes issued since the last break (or start).
\* lastButtons holds the primary-button and tracking-button bits of the last
\* mouse button event (both clear before the first one).
\* outstanding is the number of commands written to the port whose reply
\* has neither arrived nor timed out; nEvents counts the records dispatched.

\* ---- KM232 USB command constants (main.cpp 27-51) ----
USB_BufferClear == 56
USB_MouseLeft == 66
USB_MouseRight == 67
USB_MouseUp == 68
USB_MouseDown == 69
USB_MouseLeftButton == 73
USB_MouseRightButton == 74
USB_MouseMiddleButton == 77
USB_ScrollWheelUp == 87
USB_ScrollWheelDown == 88
USB_MouseSlow == 109
USB_MouseFast == 111
USB_StatusLEDRead == 127
USB_BREAK == 128

\* ---- build configuration (main.cpp 20-21) ----
ASC232 == 1
KM232 == 0

\* ---- Windows console constants used by the handlers ----
FROM_LEFT_1ST_BUTTON_PRESSED == 1
RIGHTMOST_BUTTON_PRESSED == 2
FROM_LEFT_2ND_BUTTON_PRESSED == 4
MOUSE_MOVED == 1
DOUBLE_CLICK == 2
MOUSE_WHEELED == 4
MOUSE_HWHEELED == 8

\* ---- virtual keys drawn as inputs ----
VK_LBUTTON == 1
VK_SHIFT == 16
VK_LSHIFT == 160

\* ---- bounds of the model ----
MaxEvents == 4
GridW == 3
GridH == 2

\* the pointer positions GetCursorPos can report
XRange == 10 .. (10 + GridW)
YRange == (10 - GridH) .. 10
Grid == [x : XRange, y : YRange]

\* two opposite corners of the grid
PressPoints == {[x |-> 10, y |-> 10], [x |-> 10 + GridW, y |-> 10 - GridH]}

KeyIds == {VK_LBUTTON, VK_SHIFT, VK_LSHIFT}

\* the reply bytes the device is taken to give: any of StatusReplies to the
\* status query, the byte of AckReplies to every other command
AckReplies == {48}
StatusReplies == {32, 47, 48, 51, 55, 56}
DeviceReplies(c) == IF c = USB_StatusLEDRead THEN StatusReplies ELSE AckReplies

\* what sp_blocking_read(pSCC, &byte, 1, 50) can give after command c: an
\* error (n < 0), no byte within the timeout (n = 0), or one reply byte
ReadOutcomes(c) ==
    {[n |-> -1, byte |-> 0], [n |-> 0, byte |-> 0]}
        \cup {[n |-> 1, byte |-> b] : b \in DeviceReplies(c)}

\* result is the set of values the handler's local `int result` can hold: one
\* value once it is assigned, any int (a negative one or not) before that
UninitInt == {-1, 0}

\* the table that passes the low seven bits of the virtual-key code through
tableRaw == [i \in 1 .. 256 |-> (i - 1) % 128]

\* KeyToMakeCode's table[256]
table ==
    <<   0,   0,   0,   0,   0,   0,   0,   0,  15,  16,   0,   0,   0,  43,   0,   0,
        44,  58,  60,   0,  30,   0,   0,   0,   0,   0,   0, 110,   0,   0,   0,   0,
        61,  85,  86,  81,  80,  79,  83,  89,  84,   0,   0,   0,   0,  75,  76,   0,
        11,   2,   3,   4,   5,   6,   7,   8,   9,  10,   0,   0,   0,   0,   0,   0,
         0,  31,  50,  48,  33,  19,  34,  35,  36,  24,  37,  38,  39,  52,  51,  25,
        26,  17,  20,  32,  21,  23,  49,  18,  47,  22,  46,  70,  71,   0,   0,   0,
        99,  93,  98, 103,  92,  97, 102,  91,  96, 101, 100, 106,   0, 105, 104,  95,
       112, 113, 114, 115, 116, 117, 118, 119, 120, 121, 122, 124,   0,   0,   0,   0,
         0,   0,   0,   0,   0,   0,   0,   0,   0,   0,   0,   0,   0,   0,   0,   0,
        90, 125,   0,   0,   0,   0,   0,   0,   0,   0,   0,   0,   0,   0,   0,   0,
        44,  57,  58,  64,  60,  62,   0,   0,   0,   0,   0,   0,   0,   0,   0,   0,
         0,   0,   0,   0,   0,   0,   0,   0,   0,   0,  40,  13,  53,  12,  54,  55,
         1,   0,   0,   0,   0,   0,   0,   0,   0,   0,   0,   0,   0,   0,   0,   0,
         0,   0,   0,   0,   0,   0,   0,   0,   0,   0,   0,  27,  29,  28,  41,   0,
         0,   0,   0,   0,   0,   0,   0,   0,   0,   0,   0,   0,   0,   0,   0,   0,
         0,   0,   0,   0,   0,   0,   0,   0,   0,   0,   0,   0,   0,   0,   0,   0 >>
\* the index masked with 0x7F
KeyToMakeCodeMask7(vkCode) == table[(vkCode % 128) + 1]

\* unsigned char KeyToMakeCode(WORD vkCode): table[vkCode & 0xFF]
KeyToMakeCode(vkCode) == table[(vkCode % 256) + 1]

\* the non-zero scan codes of the identifiers drawn
KeyCodes == {KeyToMakeCode(k) : k \in KeyIds} \ {0}

\* what the commands cmds of a key event add to the number of makes of
\* scan code c minus the number of its breaks (c + USB_BREAK)
WireDelta(cmds, c) ==
    Cardinality({i \in 1 .. Len(cmds) : cmds[i] = c})
      - Cardinality({i \in 1 .. Len(cmds) : cmds[i] = c + USB_BREAK})

\* dwButtonState & flag, for a one-bit flag
Pressed(state, flag) == (state \div flag) % 2 = 1

VARIABLES pc, ss, command, ret, port, keys, currentMouse, mouseTrack, button0,
          result, consoleMode,
          ev, pre, sent, rets, printed, io, outstanding,
          open, lastDown, runDowns, runMakes, lastButtons, nEvents,
          wireOpen, makeByte, abortedTo, lostHeld, iters, primOwed, primSince

prog == <<port, keys, currentMouse, mouseTrack, button0, result, consoleMode>>
call == <<ss, command, ret, io, outstanding>>
obs == <<ev, pre, sent, rets, printed>>
keyhist == <<open, lastDown, runDowns, runMakes, wireOpen, makeByte, lostHeld>>
mousehist == <<lastButtons, abortedTo, iters, primOwed, primSince>>
hist == <<keyhist, mousehist, nEvents>>
vars == <<pc, prog, call, obs, hist>>

\* no Move left a part of its delta unissued
NoPoint == [x |-> 0, y |-> 0]

NoEvent == [type |-> "none", a |-> 0, x |-> 0, y |-> 0]
Event(t, a, x, y) == [type |-> t, a |-> a, x |-> x, y |-> y]

\* the primary-button and tracking-button bits of a dwButtonState
Buttons(state) ==
    [primary |-> Pressed(state, FROM_LEFT_1ST_BUTTON_PRESSED),
     tracking |-> Pressed(state, RIGHTMOST_BUTTON_PRESSED)]

\* static std::vector<WORD> keys; static POINT currentMouse; static bool
\* mouseTrack; static bool button0 = false; pSCC = nullptr; main up to the
\* call of InitSerialPort
Init ==
    /\ pc = "start"
    /\ ss = "idle" /\ command = 0 /\ ret = 0 /\ io = <<>> /\ outstanding = 0
    /\ port = "null"
    /\ keys = <<>>
    /\ currentMouse = [x |-> 0, y |-> 0]
    /\ mouseTrack = FALSE
    /\ button0 = FALSE
    /\ result = UninitInt
    /\ consoleMode = "relay"
    /\ ev = NoEvent
    /\ pre = [keys |-> <<>>, cm |-> [x |-> 0, y |-> 0], buttons |-> Buttons(0), make |-> 0,
            track |-> FALSE, b0 |-> FALSE, lost |-> FALSE, owed |-> 0, since |-> 0]
    /\ sent = <<>> /\ rets = <<>> /\ printed = "none"
    /\ open = [k \in KeyIds |-> 0]
    /\ lastDown = [k \in KeyIds |-> FALSE]
    /\ runDowns = [k \in KeyIds |-> 0]
    /\ runMakes = [k \in KeyIds |-> 0]
    /\ lastButtons = Buttons(0)
    /\ abortedTo = NoPoint
    /\ iters = 0
    /\ primOwed = 0 /\ primSince = 0
    /\ wireOpen = [c \in KeyCodes |-> 0]
    /\ makeByte = [k \in KeyIds |-> 0]
    /\ lostHeld = [k \in KeyIds |-> FALSE]
    /\ nEvents = 0

\* ---------------------------------------------------------------------
\* SerialSend (main.cpp 1110-1133)
\* ---------------------------------------------------------------------

\* A handler goes on: with cmds = <<c>> it calls SerialSend(c) and waits at
\* retpc for it to return, with cmds = <<>> it calls nothing and goes to
\* donepc.  prior is what the handler has issued so far.  The frame of a
\* SerialSend call that has returned (command, result, what it did on the
\* port) is gone.
Invoke(cmds, prior, retpc, donepc) ==
    IF cmds = <<>>
      THEN /\ ss' = "idle"
           /\ command' = 0 /\ ret' = 0 /\ io' = <<>>
           /\ sent' = prior
           /\ pc' = donepc
           /\ UNCHANGED outstanding
      ELSE /\ ss' = "called"
           /\ command' = cmds[1]
           /\ ret' = 0 /\ io' = <<>>
           /\ sent' = Append(prior, cmds[1])
           /\ pc' = retpc
           /\ UNCHANGED outstanding

\* SerialSend returning as soon as the byte is written, the reply unread
SerialSendWriteNoWait ==
    /\ ss = "called"
    /\ io' = <<[op |-> "write", byte |-> command, n |-> 1]>>
    /\ ss' = "done"
    /\ ret' = 0
    /\ outstanding' = outstanding + 1
    /\ UNCHANGED <<pc, prog, command, obs, hist>>

\* sp_blocking_write(pSCC, &command, 1, 50): an error (-1), nothing written
\* within the timeout (0), or the byte written (1), this only on an open port
WriteResults(prt) == IF prt = "open" THEN {-1, 0, 1} ELSE {-1}

\* SerialSend with its result starting at 0 instead of -1, on the paths
\* that end before the read
SerialSendWriteZero ==
    /\ ss = "called"
    /\ IF port = "null"
         THEN /\ io' = <<>>
              /\ ret' = 0
              /\ ss' = "done"
              /\ UNCHANGED outstanding
         ELSE \E n \in WriteResults(port) :
              /\ io' = <<[op |-> "write", byte |-> command, n |-> n]>>
              /\ IF n = 1
                   THEN ss' = "wrote" /\ outstanding' = outstanding + 1 /\ UNCHANGED ret
                   ELSE ss' = "done" /\ ret' = 0 /\ UNCHANGED outstanding
    /\ UNCHANGED <<pc, prog, command, obs, hist>>

\* int result = -1; if (pSCC) { num_bytes = sp_blocking_write(...);
\* if (1 == num_bytes) -> go on to the read; otherwise return result
SerialSendWrite ==
    /\ ss = "called"
    /\ IF port = "null"
         THEN /\ io' = <<>>
              /\ ret' = -1
              /\ ss' = "done"
              /\ UNCHANGED outstanding
         ELSE \E n \in WriteResults(port) :
              /\ io' = <<[op |-> "write", byte |-> command, n |-> n]>>
              /\ IF n = 1
                   THEN ss' = "wrote" /\ outstanding' = outstanding + 1 /\ UNCHANGED ret
                   ELSE ss' = "done" /\ ret' = -1 /\ UNCHANGED outstanding
    /\ UNCHANGED <<pc, prog, command, obs, hist>>

\* SerialSend with its result starting at 0 instead of -1
ReadResultZero(n, byte) == IF n = 1 THEN byte ELSE 0

\* the value SerialSend returns after sp_blocking_read returned n bytes
ReadResult(n, byte) == IF n = 1 THEN byte ELSE -1

\* num_bytes = sp_blocking_read(pSCC, &byte, 1, 50); if (1 == num_bytes)
\* result = (int)byte; return result
SerialSendRead ==
    /\ ss = "wrote"
    /\ \E o \in ReadOutcomes(command) :
         /\ io' = Append(io, [op |-> "read", byte |-> o.byte, n |-> o.n])
         /\ ret' = ReadResult(o.n, o.byte)
    /\ outstanding' = outstanding - 1
    /\ ss' = "done"
    /\ UNCHANGED <<pc, prog, command, obs, hist>>

\* ---------------------------------------------------------------------
\* InitSerialPort (main.cpp 1030-1104)
\* ---------------------------------------------------------------------

\* sp_get_port_by_name leaves pSCC null when the port is not found; sp_open
\* of a port that was found can fail, and pSCC stays non-null
PortOutcomes == {"null", "closed", "open"}

\* the message printed for a port that was not found, or found and not opened
OpenFailure(prt) == IF prt = "null" THEN "failfind" ELSE "failopen"

\* the handshake going on whatever SerialSend returned
HandshakeNextUngated(at, r) ==
    IF at = "hs_clear" /\ KM232 # 0 THEN <<USB_MouseFast>>
    ELSE IF at \in {"hs_clear", "hs_fast"} THEN <<USB_StatusLEDRead>>
    ELSE <<>>

\* the command the handshake sends after the one at `at` returned r:
\* #if KM232 if (result >= 0) SerialSend(USB_MouseFast);
\* if (result >= 0) SerialSend(USB_StatusLEDRead);
HandshakeNext(at, r) ==
    IF at = "hs_clear" /\ KM232 # 0 /\ r >= 0 THEN <<USB_MouseFast>>
    ELSE IF at \in {"hs_clear", "hs_fast"} /\ r >= 0 THEN <<USB_StatusLEDRead>>
    ELSE <<>>

\* if (result >= 0) { if ((result >= 0x30) && (result <= 0x37)) "live" }
\* else "No Response"
Classify(r) ==
    IF r >= 0
      THEN IF (r >= 48) /\ (r <= 55) THEN "live" ELSE "none"
      ELSE "noresp"

HandshakePc(c) ==
    IF c = USB_MouseFast THEN "hs_fast" ELSE "hs_status"

\* InitSerialPort calling ErrorExit when the port is not found or not opened
InitSerialPort_OpenOrExit ==
    /\ pc = "start"
    /\ \E prt \in PortOutcomes :
         /\ port' = prt
         /\ IF prt = "open"
              THEN /\ Invoke(<<USB_BufferClear>>, <<>>, "hs_clear", "ret")
                   /\ UNCHANGED <<printed, consoleMode>>
              ELSE /\ printed' = OpenFailure(prt)
                   /\ pc' = "exited"
                   /\ consoleMode' = "restored"
                   /\ UNCHANGED <<call, sent>>
    /\ UNCHANGED <<keys, currentMouse, mouseTrack, button0, result>>
    /\ UNCHANGED <<ev, pre, rets, hist>>

InitSerialPort_Open ==
    /\ pc = "start"
    /\ \E prt \in PortOutcomes :
         /\ port' = prt
         /\ IF prt = "open"
              THEN /\ Invoke(<<USB_BufferClear>>, <<>>, "hs_clear", "ret")
                   /\ UNCHANGED printed
              ELSE /\ printed' = OpenFailure(prt)
                   /\ pc' = "ret"
                   /\ UNCHANGED <<call, sent>>
    /\ UNCHANGED <<keys, currentMouse, mouseTrack, button0, result, consoleMode>>
    /\ UNCHANGED <<ev, pre, rets, hist>>

InitSerialPort_Resume ==
    /\ pc \in {"hs_clear", "hs_fast", "hs_status"}
    /\ ss = "done"
    /\ rets' = Append(rets, ret)
    /\ LET next == HandshakeNext(pc, ret) IN
         /\ Invoke(next, sent, IF next = <<>> THEN "ret" ELSE HandshakePc(next[1]), "ret")
         /\ IF next = <<>>
              THEN printed' = Classify(ret) /\ result' = UninitInt
              ELSE UNCHANGED printed /\ result' = {ret}
    /\ UNCHANGED <<port, keys, currentMouse, mouseTrack, button0, consoleMode>>
    /\ UNCHANGED <<ev, pre, hist>>

\* ---------------------------------------------------------------------
\* main's dispatch loop (main.cpp 120-161)
\* ---------------------------------------------------------------------

\* the handler (or InitSerialPort) has returned to main; main goes on to
\* the next record irInBuf[i], reading a new batch when this one is used up.
\* What the handler was called with and what it issued and printed is kept
\* up to here.
\* abortedTo when the handler of ev has returned: the target of a Move that a
\* timeout on the open port cut short before currentMouse reached it (line
\* 385 or 398), kept over the events that are not mouse events.  Moves to the
\* PressPoints are the ones recorded.
AbortedToAfter ==
    IF ev.type = "Move" /\ port = "open" /\ mouseTrack /\ rets # <<>> /\ rets[Len(rets)] < 0
         /\ currentMouse # [x |-> ev.x, y |-> ev.y]
         /\ [x |-> ev.x, y |-> ev.y] \in PressPoints
      THEN [x |-> ev.x, y |-> ev.y]
      ELSE IF ev.type \in {"Move", "Button"} THEN NoPoint ELSE abortedTo

MainNextRecord ==
    /\ pc = "ret"
    /\ pc' = "loop"
    /\ ev' = NoEvent
    /\ pre' = [keys |-> <<>>, cm |-> [x |-> 0, y |-> 0], buttons |-> Buttons(0), make |-> 0,
            track |-> FALSE, b0 |-> FALSE, lost |-> FALSE, owed |-> 0, since |-> 0]
    /\ sent' = <<>> /\ rets' = <<>> /\ printed' = "none"
    /\ abortedTo' = AbortedToAfter
    /\ iters' = 0
    /\ UNCHANGED <<prog, call, keyhist, lastButtons, nEvents, primOwed, primSince>>

\* main takes the next record of the batch and calls its handler
Dispatch(e) ==
    /\ pc = "loop"
    /\ nEvents < MaxEvents
    /\ nEvents' = nEvents + 1
    /\ ev' = e
    /\ pre' = [keys |-> keys, cm |-> currentMouse, buttons |-> lastButtons,
               make |-> IF e.type = "KeyUp" THEN makeByte[e.a] ELSE 0,
               track |-> mouseTrack, b0 |-> button0,
               lost |-> IF e.type \in {"KeyDown", "KeyUp"} THEN lostHeld[e.a] ELSE FALSE,
               owed |-> primOwed, since |-> primSince]
    /\ rets' = <<>>
    /\ printed' = "none"

\* ---------------------------------------------------------------------
\* KeyEventProc (main.cpp 228-299)
\* ---------------------------------------------------------------------

\* the search loops of lines 238-245 and 263-279
InKeys(ks, vk) == \E idx \in 1 .. Len(ks) : ks[idx] = vk

\* the first index holding vk
IndexOf(ks, vk) == CHOOSE idx \in 1 .. Len(ks) : ks[idx] = vk /\ \A j \in 1 .. (idx - 1) : ks[j] # vk

\* bAdd as it would be without the search of lines 238-245
bAddAlways(ks, vk) == TRUE

\* bool bAdd = true; ... if (keys[idx] == vk) bAdd = false;
bAdd(ks, vk) == ~InKeys(ks, vk)

\* keys.pop_back() in the place of the erase
ErasePopBack(ks, idx) == SubSeq(ks, 1, Len(ks) - 1)

\* keys.erase(keys.begin() + idx)
Erase(ks, idx) == [j \in 1 .. (Len(ks) - 1) |-> IF j < idx THEN ks[j] ELSE ks[j + 1]]

\* the push_back guarded by the scan code as well
KeysAfterDownMapped(ks, vk) ==
    IF bAdd(ks, vk) /\ KeyToMakeCode(vk) # 0 THEN Append(ks, vk) ELSE ks

\* the new key inserted at the front of the list
KeysAfterDownFront(ks, vk) == IF bAdd(ks, vk) THEN <<vk>> \o ks ELSE ks

\* if (bAdd) keys.push_back(vk)
KeysAfterDown(ks, vk) == IF bAdd(ks, vk) THEN Append(ks, vk) ELSE ks

\* the make sent outside the if (bAdd) block
MakeCmdsRepeat(ks, vk) ==
    IF KeyToMakeCode(vk) # 0 THEN <<KeyToMakeCode(vk)>> ELSE <<>>

\* if (bAdd) { km_code = KeyToMakeCode(vk); if (km_code) SerialSend(km_code); }
MakeCmds(ks, vk) ==
    IF bAdd(ks, vk) /\ KeyToMakeCode(vk) # 0 THEN <<KeyToMakeCode(vk)>> ELSE <<>>

\* the release loop: erase the first entry equal to vk
KeysAfterUp(ks, vk) == IF InKeys(ks, vk) THEN Erase(ks, IndexOf(ks, vk)) ELSE ks

\* the break sent without USB_BREAK added
BreakCmdsNoOffset(ks, vk) ==
    IF InKeys(ks, vk) /\ KeyToMakeCode(vk) # 0
      THEN <<KeyToMakeCode(vk)>>
      ELSE <<>>

\* the break sent for every KeyUp of a mapped key, held or not
BreakCmdsAlways(ks, vk) ==
    IF KeyToMakeCode(vk) # 0
      THEN <<(KeyToMakeCode(vk) + USB_BREAK) % 256>>
      ELSE <<>>

\* if (km_code) SerialSend(km_code + USB_BREAK), the argument an unsigned char
BreakCmds(ks, vk) ==
    IF InKeys(ks, vk) /\ KeyToMakeCode(vk) # 0
      THEN <<(KeyToMakeCode(vk) + USB_BREAK) % 256>>
      ELSE <<>>

KeyEventProc_Down ==
    \E vk \in KeyIds :
      /\ Dispatch(Event("KeyDown", vk, 0, 0))
      /\ keys' = KeysAfterDown(keys, vk)
      /\ Invoke(MakeCmds(keys, vk), <<>>, "key_ret", "ret")
      /\ open' = [open EXCEPT ![vk] = @ + Len(MakeCmds(keys, vk))]
      /\ runMakes' = [runMakes EXCEPT ![vk] = @ + Len(MakeCmds(keys, vk))]
      /\ runDowns' = [runDowns EXCEPT ![vk] = IF @ = 0 THEN 1 ELSE 2]
      /\ lastDown' = [lastDown EXCEPT ![vk] = TRUE]
      /\ wireOpen' = [c \in KeyCodes |-> wireOpen[c] + WireDelta(MakeCmds(keys, vk), c)]
      /\ makeByte' = [makeByte EXCEPT ![vk] =
                         IF MakeCmds(keys, vk) = <<>> THEN @ ELSE MakeCmds(keys, vk)[1]]
      /\ lostHeld' = [lostHeld EXCEPT ![vk] = FALSE]
      /\ UNCHANGED <<port, currentMouse, mouseTrack, button0, result, consoleMode>>
      /\ UNCHANGED mousehist

KeyEventProc_Up ==
    \E vk \in KeyIds :
      /\ Dispatch(Event("KeyUp", vk, 0, 0))
      /\ keys' = KeysAfterUp(keys, vk)
      /\ Invoke(BreakCmds(keys, vk), <<>>, "key_ret", "ret")
      /\ open' = [open EXCEPT ![vk] = @ - Len(BreakCmds(keys, vk))]
      /\ runMakes' = [runMakes EXCEPT ![vk] = 0]
      /\ runDowns' = [runDowns EXCEPT ![vk] = 0]
      /\ lastDown' = [lastDown EXCEPT ![vk] = FALSE]
      /\ wireOpen' = [c \in KeyCodes |-> wireOpen[c] + WireDelta(BreakCmds(keys, vk), c)]
      /\ makeByte' = [makeByte EXCEPT ![vk] = 0]
      /\ lostHeld' = [lostHeld EXCEPT ![vk] = FALSE]
      /\ UNCHANGED <<port, currentMouse, mouseTrack, button0, result, consoleMode>>
      /\ UNCHANGED mousehist

\* the change of keys taken back when SerialSend returned a timeout
KeyEventProc_ReturnUndo ==
    /\ pc = "key_ret"
    /\ ss = "done"
    /\ rets' = Append(rets, ret)
    /\ Invoke(<<>>, sent, "ret", "ret")
    /\ keys' = (IF ret < 0 THEN pre.keys ELSE keys)
    /\ UNCHANGED <<port, currentMouse, mouseTrack, button0, result, consoleMode>>
    /\ UNCHANGED <<ev, pre, printed, hist>>

\* SerialSend returned; its result is not read; the key list is displayed
KeyEventProc_Return ==
    /\ pc = "key_ret"
    /\ ss = "done"
    /\ rets' = Append(rets, ret)
    /\ Invoke(<<>>, sent, "ret", "ret")
    /\ UNCHANGED <<prog, ev, pre, printed, hist>>

\* ---------------------------------------------------------------------
\* FocusEventProc (main.cpp 183-224)
\* ---------------------------------------------------------------------

\* the reset done on every focus event, without the test of bSetFocus
FocusClearsAnyFocus(bSetFocus, ks) == Len(ks) # 0

\* if (!fer.bSetFocus) if (0 != keys.size())
FocusClears(bSetFocus, ks) == (~bSetFocus) /\ Len(ks) # 0

\* keys.clear()
KeysAfterFocus(bSetFocus, ks) == IF FocusClears(bSetFocus, ks) THEN <<>> ELSE ks

\* the #if 0 branch of lines 195-207: break codes, last key first
FocusCmdsBreaks(bSetFocus, ks) ==
    IF FocusClears(bSetFocus, ks) /\ KeyToMakeCode(ks[Len(ks)]) # 0
      THEN <<(KeyToMakeCode(ks[Len(ks)]) + USB_BREAK) % 256>>
      ELSE <<>>

\* SerialSend(USB_BufferClear)
FocusCmds(bSetFocus, ks) ==
    IF FocusClears(bSetFocus, ks) THEN <<USB_BufferClear>> ELSE <<>>

\* the focus handler releasing the mouse as well: the latch and the tracking
\* flag reset when the keys are cleared
FocusEventProc_ReleaseMouse ==
    \E bSetFocus \in BOOLEAN :
      /\ Dispatch(Event("Focus", IF bSetFocus THEN 1 ELSE 0, 0, 0))
      /\ keys' = KeysAfterFocus(bSetFocus, keys)
      /\ Invoke(FocusCmds(bSetFocus, keys), <<>>, "focus_ret", "ret")
      /\ IF FocusCmds(bSetFocus, keys) # <<>>
           THEN /\ open' = [k \in KeyIds |-> 0]
                /\ lastDown' = [k \in KeyIds |-> FALSE]
                /\ runMakes' = [k \in KeyIds |-> 0]
                /\ runDowns' = [k \in KeyIds |-> 0]
                /\ wireOpen' = [c \in KeyCodes |-> 0]
                /\ makeByte' = [k \in KeyIds |-> 0]
                /\ lostHeld' = [k \in KeyIds |-> InKeys(keys, k)]
                /\ button0' = FALSE /\ mouseTrack' = FALSE
           ELSE UNCHANGED keyhist /\ UNCHANGED <<button0, mouseTrack>>
      /\ UNCHANGED <<port, currentMouse, result, consoleMode>>
      /\ UNCHANGED mousehist

FocusEventProc ==
    \E bSetFocus \in BOOLEAN :
      /\ Dispatch(Event("Focus", IF bSetFocus THEN 1 ELSE 0, 0, 0))
      /\ keys' = KeysAfterFocus(bSetFocus, keys)
      /\ Invoke(FocusCmds(bSetFocus, keys), <<>>, "focus_ret", "ret")
      /\ IF FocusCmds(bSetFocus, keys) # <<>>
           THEN /\ open' = [k \in KeyIds |-> 0]
                /\ lastDown' = [k \in KeyIds |-> FALSE]
                /\ runMakes' = [k \in KeyIds |-> 0]
                /\ runDowns' = [k \in KeyIds |-> 0]
                /\ wireOpen' = [c \in KeyCodes |-> 0]
                /\ makeByte' = [k \in KeyIds |-> 0]
                /\ lostHeld' = [k \in KeyIds |-> InKeys(keys, k)]
           ELSE UNCHANGED keyhist
      /\ UNCHANGED <<port, currentMouse, mouseTrack, button0, result, consoleMode>>
      /\ UNCHANGED mousehist

FocusEventProc_Return ==
    /\ pc = "focus_ret"
    /\ ss = "done"
    /\ rets' = Append(rets, ret)
    /\ Invoke(<<>>, sent, "ret", "ret")
    /\ UNCHANGED <<prog, ev, pre, printed, hist>>

\* ---------------------------------------------------------------------
\* MouseEventProc (main.cpp 303-412)
\* ---------------------------------------------------------------------

\* the rightmost button sending its own make
ButtonCmdsRight(state, b0) ==
    IF Pressed(state, FROM_LEFT_1ST_BUTTON_PRESSED) THEN <<USB_MouseLeftButton>>
    ELSE IF b0 THEN <<(USB_MouseLeftButton + USB_BREAK) % 256>>
    ELSE IF Pressed(state, RIGHTMOST_BUTTON_PRESSED) THEN <<USB_MouseRightButton>>
    ELSE <<>>

\* the break sent whenever the primary bit is clear, latched or not
ButtonCmdsUnlatched(state, b0) ==
    IF Pressed(state, FROM_LEFT_1ST_BUTTON_PRESSED) THEN <<USB_MouseLeftButton>>
    ELSE <<(USB_MouseLeftButton + USB_BREAK) % 256>>

\* case 0 / DOUBLE_CLICK, lines 327-337: the primary-button command
ButtonCmds(state, b0) ==
    IF Pressed(state, FROM_LEFT_1ST_BUTTON_PRESSED) THEN <<USB_MouseLeftButton>>
    ELSE IF b0 THEN <<(USB_MouseLeftButton + USB_BREAK) % 256>>
    ELSE <<>>

\* button0 when SerialSend is called: the else-if branch clears it before
\* the call, the if branch sets it after the call
Button0AtCall(state, b0) ==
    IF Pressed(state, FROM_LEFT_1ST_BUTTON_PRESSED) THEN b0 ELSE FALSE

\* button0 = true after the make's SerialSend returned
Button0AtReturn(state, b0) ==
    IF Pressed(state, FROM_LEFT_1ST_BUTTON_PRESSED) THEN TRUE ELSE b0

\* button0 when lines 327-337 are done
Button0After(state, b0) ==
    IF Pressed(state, FROM_LEFT_1ST_BUTTON_PRESSED) THEN TRUE
    ELSE IF b0 THEN FALSE
    ELSE b0

\* lines 339-348: mouseTrack = the rightmost-button bit
TrackAfter(state) == Pressed(state, RIGHTMOST_BUTTON_PRESSED)

\* lines 339-344: GetCursorPos(&currentMouse) when the rightmost button is down
RefAfter(state, q, cm) == IF Pressed(state, RIGHTMOST_BUTTON_PRESSED) THEN q ELSE cm

\* GetCursorPos is called only when the rightmost button is down; the pointer
\* is then taken to be at one of PressPoints (every other point of the grid
\* becomes the reference point by a Move to it)
CursorInputs(state) ==
    IF Pressed(state, RIGHTMOST_BUTTON_PRESSED) THEN PressPoints ELSE {[x |-> 0, y |-> 0]}

ButtonStates == 0 .. 7

\* the primary-button makes issued since the last break, after cmds
PrimSinceAfter(cmds, since) ==
    IF \E i \in 1 .. Len(cmds) : cmds[i] = USB_MouseLeftButton + USB_BREAK THEN 0
    ELSE since + Cardinality({i \in 1 .. Len(cmds) : cmds[i] = USB_MouseLeftButton})

MouseEventProc_Button ==
    \E flags \in {0, DOUBLE_CLICK}, state \in ButtonStates :
      \E q \in CursorInputs(state) :
        /\ Dispatch(Event("Button", state, q.x, q.y))
        /\ Invoke(ButtonCmds(state, button0), <<>>, "button_ret", "ret")
        /\ IF ButtonCmds(state, button0) = <<>>
             THEN /\ button0' = Button0After(state, button0)
                  /\ mouseTrack' = TrackAfter(state)
                  /\ currentMouse' = RefAfter(state, q, currentMouse)
             ELSE /\ button0' = Button0AtCall(state, button0)
                  /\ UNCHANGED <<mouseTrack, currentMouse>>
        /\ lastButtons' = Buttons(state)
        /\ UNCHANGED <<abortedTo, iters>>
        /\ primOwed' = primOwed + WireDelta(ButtonCmds(state, button0), USB_MouseLeftButton)
        /\ primSince' = PrimSinceAfter(ButtonCmds(state, button0), primSince)
        /\ UNCHANGED <<port, keys, result, consoleMode>>
        /\ UNCHANGED keyhist

\* SerialSend returned: button0 = true after a make, then lines 339-353
MouseEventProc_ButtonResume ==
    /\ pc = "button_ret"
    /\ ss = "done"
    /\ rets' = Append(rets, ret)
    /\ Invoke(<<>>, sent, "ret", "ret")
    /\ button0' = Button0AtReturn(ev.a, button0)
    /\ mouseTrack' = TrackAfter(ev.a)
    /\ currentMouse' = RefAfter(ev.a, [x |-> ev.x, y |-> ev.y], currentMouse)
    /\ UNCHANGED <<port, keys, result, consoleMode>>
    /\ UNCHANGED <<ev, pre, printed, hist>>

\* the target p of the MOUSE_MOVED case being handled
Target == [x |-> ev.x, y |-> ev.y]

\* lines 373-382: the horizontal step
XCmd(cm, tgt) ==
    IF tgt.x > cm.x THEN <<USB_MouseRight>>
    ELSE IF tgt.x < cm.x THEN <<USB_MouseLeft>>
    ELSE <<>>

XNext(cm, tgt) ==
    IF tgt.x > cm.x THEN [cm EXCEPT !.x = @ + 1]
    ELSE IF tgt.x < cm.x THEN [cm EXCEPT !.x = @ - 1]
    ELSE cm

\* lines 387-396: the vertical step
YCmd(cm, tgt) ==
    IF tgt.y > cm.y THEN <<USB_MouseDown>>
    ELSE IF tgt.y < cm.y THEN <<USB_MouseUp>>
    ELSE <<>>

\* the vertical command sent and the reference point left where it was
YNextStay(cm, tgt) == cm

YNext(cm, tgt) ==
    IF tgt.y > cm.y THEN [cm EXCEPT !.y = @ + 1]
    ELSE IF tgt.y < cm.y THEN [cm EXCEPT !.y = @ - 1]
    ELSE cm

\* the loop without its timeout tests
BreakNever(res) == FALSE

\* if (result < 0) break;
Break(res) == res < 0

\* while ((p.x != currentMouse.x) || (p.y != currentMouse.y))
Looping(cm, tgt) == (tgt.x # cm.x) \/ (tgt.y # cm.y)

\* the Move loop entered without the test of mouseTrack
MouseEventProc_MoveUngated ==
    \E q \in Grid :
      /\ Dispatch(Event("Move", 0, q.x, q.y))
      /\ Invoke(<<>>, <<>>, "ret", "mv_top")
      /\ UNCHANGED <<port, keys, currentMouse, mouseTrack, button0, result, consoleMode>>
      /\ UNCHANGED <<keyhist, mousehist>>

\* case MOUSE_MOVED: GetCursorPos(&p) gives the target, any point of the grid;
\* if (mouseTrack) { int result; ... with result not initialised
MouseEventProc_Move ==
    \E q \in Grid :
      /\ Dispatch(Event("Move", 0, q.x, q.y))
      /\ Invoke(<<>>, <<>>, "ret", IF mouseTrack THEN "mv_top" ELSE "ret")
      /\ UNCHANGED <<port, keys, currentMouse, mouseTrack, button0, result, consoleMode>>
      /\ UNCHANGED <<keyhist, mousehist>>

\* the handler leaving the loop with currentMouse set to the target
MoveExitDrop ==
    /\ Invoke(<<>>, sent, "ret", "ret")
    /\ result' = UninitInt
    /\ currentMouse' = Target

\* the handler leaves the loop and returns; its local result is gone
MoveExit ==
    /\ Invoke(<<>>, sent, "ret", "ret")
    /\ result' = UninitInt
    /\ UNCHANGED currentMouse

\* lines 387-399, entered with result = res: the vertical step, if any
MoveY(res) ==
    IF YCmd(currentMouse, Target) # <<>>
      THEN /\ currentMouse' = YNext(currentMouse, Target)
           /\ Invoke(YCmd(currentMouse, Target), sent, "mv_y", "mv_y")
           /\ result' = {res}
      ELSE IF Break(res)
        THEN MoveExit
        ELSE /\ Invoke(<<>>, sent, "mv_top", "mv_top")
             /\ result' = {res}
             /\ UNCHANGED currentMouse

\* the loop test and lines 373-385: the horizontal step, if any; without one
\* the test of line 385 reads result as it is
MoveLoop ==
    /\ pc = "mv_top"
    /\ IF ~Looping(currentMouse, Target)
         THEN MoveExit
         ELSE IF XCmd(currentMouse, Target) # <<>>
           THEN /\ currentMouse' = XNext(currentMouse, Target)
                /\ Invoke(XCmd(currentMouse, Target), sent, "mv_x", "mv_x")
                /\ UNCHANGED result
           ELSE \E res \in result : IF Break(res) THEN MoveExit ELSE MoveY(res)
    /\ iters' = IF Looping(currentMouse, Target) THEN iters + 1 ELSE iters
    /\ UNCHANGED <<port, keys, mouseTrack, button0, consoleMode>>
    /\ UNCHANGED <<ev, pre, rets, printed, keyhist, lastButtons, abortedTo, nEvents,
                   primOwed, primSince>>

\* result = SerialSend(USB_MouseRight / USB_MouseLeft) returned
MoveAfterX ==
    /\ pc = "mv_x"
    /\ ss = "done"
    /\ rets' = Append(rets, ret)
    /\ IF Break(ret) THEN MoveExit ELSE MoveY(ret)
    /\ UNCHANGED <<port, keys, mouseTrack, button0, consoleMode>>
    /\ UNCHANGED <<ev, pre, printed, hist>>

\* result = SerialSend(USB_MouseDown / USB_MouseUp) returned
MoveAfterY ==
    /\ pc = "mv_y"
    /\ ss = "done"
    /\ rets' = Append(rets, ret)
    /\ IF Break(ret)
         THEN MoveExit
         ELSE /\ Invoke(<<>>, sent, "mv_top", "mv_top")
              /\ result' = {ret}
              /\ UNCHANGED currentMouse
    /\ UNCHANGED <<port, keys, mouseTrack, button0, consoleMode>>
    /\ UNCHANGED <<ev, pre, printed, hist>>

\* the vertical wheel case sending a scroll command
MouseEventProc_OtherScroll ==
    \E flags \in {MOUSE_WHEELED, MOUSE_HWHEELED, 16} :
      /\ Dispatch(Event("Wheel", flags, 0, 0))
      /\ Invoke(IF flags = MOUSE_WHEELED THEN <<USB_ScrollWheelUp>> ELSE <<>>,
                <<>>, "focus_ret", "ret")
      /\ UNCHANGED <<prog, keyhist, mousehist>>

\* case MOUSE_WHEELED, case MOUSE_HWHEELED, default: a printf only
MouseEventProc_Other ==
    \E flags \in {MOUSE_WHEELED, MOUSE_HWHEELED, 16} :
      /\ Dispatch(Event("Wheel", flags, 0, 0))
      /\ Invoke(<<>>, <<>>, "ret", "ret")
      /\ UNCHANGED <<prog, keyhist, mousehist>>

\* ---------------------------------------------------------------------
\* main: the other event types (main.cpp 145-158), ErrorExit (170-179)
\* ---------------------------------------------------------------------

\* WINDOW_BUFFER_SIZE_EVENT (ResizeEventProc prints) and MENU_EVENT
MainIgnoredEvent ==
    \E t \in {"Resize", "Menu"} :
      /\ Dispatch(Event(t, 0, 0, 0))
      /\ Invoke(<<>>, <<>>, "ret", "ret")
      /\ UNCHANGED <<prog, keyhist, mousehist>>

\* an unrecognized record skipped like a MENU_EVENT
MainUnknownEventSkipped ==
    /\ Dispatch(Event("Unknown", 0, 0, 0))
    /\ Invoke(<<>>, <<>>, "ret", "ret")
    /\ UNCHANGED <<prog, keyhist, mousehist>>

\* default: ErrorExit("Unknown event type"): SetConsoleMode(hStdin,
\* fdwSaveOldMode); ExitProcess(0)
MainUnknownEvent ==
    /\ Dispatch(Event("Unknown", 0, 0, 0))
    /\ Invoke(<<>>, <<>>, "exited", "exited")
    /\ consoleMode' = "restored"
    /\ UNCHANGED <<port, keys, currentMouse, mouseTrack, button0, result>>
    /\ UNCHANGED <<keyhist, mousehist>>

\* ---------------------------------------------------------------------
\* Properties
\* ---------------------------------------------------------------------

Abs(n) == IF n < 0 THEN -n ELSE n

\* how often command c occurs in the sequence cmds
Count(cmds, c) == Cardinality({i \in 1 .. Len(cmds) : cmds[i] = c})

\* units between two pointer positions, both axes together
Dist(a, b) == Abs(a.x - b.x) + Abs(a.y - b.y)

Mapped(k) == KeyToMakeCode(k) # 0

\* the handler of the event ev has returned to main
Handled(t) == pc = "ret" /\ ev.type = t

\* C1 (balanced make/break): for every identifier k with a non-zero scan
\* code, at every point of a run of KeyDown/KeyUp events the make commands
\* issued for k minus the break commands issued for k is 0 or 1, and k is in
\* keys exactly when the last KeyDown/KeyUp event for k was a KeyDown.
C1_BalancedMakeBreak ==
    \A k \in KeyIds :
        Mapped(k) => /\ open[k] \in {0, 1}
                     /\ InKeys(keys, k) <=> lastDown[k]

\* a mapped key has been released (make and break issued) while another
\* mapped key is still held with its make open
C1_Witness ==
    /\ Handled("KeyUp")
    /\ Mapped(ev.a) /\ InKeys(pre.keys, ev.a) /\ open[ev.a] = 0
    /\ \E k \in KeyIds : k # ev.a /\ Mapped(k) /\ InKeys(keys, k) /\ open[k] = 1

\* C2 (idempotent press): a KeyDown(k) received while k is already in keys
\* calls SerialSend for nothing and leaves keys as it was; so a run of
\* KeyDown(k) events with no KeyUp(k) (and no focus-loss reset) in between
\* has issued exactly one make command for a mapped k.
C2_IdempotentPress ==
    /\ (ev.type = "KeyDown" /\ InKeys(pre.keys, ev.a)) =>
           sent = <<>> /\ ss = "idle" /\ keys = pre.keys
    /\ \A k \in KeyIds : (Mapped(k) /\ runDowns[k] >= 1) => runMakes[k] = 1

\* a second KeyDown of a held, mapped key has been handled
C2_Witness ==
    /\ Handled("KeyDown")
    /\ Mapped(ev.a) /\ InKeys(pre.keys, ev.a)
    /\ runDowns[ev.a] = 2 /\ runMakes[ev.a] = 1

\* C3 (unmapped key silence): for an identifier whose table entry is 0,
\* KeyDown and KeyUp call SerialSend for nothing, yet KeyDown of a key that is
\* not held appends it to keys and KeyUp of a held key removes it.  The first
\* conjunct says it of the handler run on the identifiers drawn; the second of
\* the handler's parts on every identifier 0..255 with entry 0.
C3_UnmappedSilence ==
    /\ (ev.type \in {"KeyDown", "KeyUp"} /\ ~Mapped(ev.a)) =>
          /\ sent = <<>> /\ ss = "idle"
          /\ (ev.type = "KeyDown" /\ ~InKeys(pre.keys, ev.a)) =>
                 keys = Append(pre.keys, ev.a)
          /\ ev.type = "KeyDown" => InKeys(keys, ev.a)
          /\ ev.type = "KeyUp" => ~InKeys(keys, ev.a)
          /\ (ev.type = "KeyUp" /\ InKeys(pre.keys, ev.a)) =>
                 Len(keys) = Len(pre.keys) - 1
    /\ pc = "start" =>
          \A id \in 0 .. 255 :
              ~Mapped(id) => /\ MakeCmds(<<>>, id) = <<>>
                             /\ BreakCmds(<<id>>, id) = <<>>
                             /\ KeysAfterDown(<<VK_SHIFT>>, id) = <<VK_SHIFT, id>>
                             /\ KeysAfterUp(<<VK_SHIFT, id>>, id) = <<VK_SHIFT>>

\* an unmapped key that was held has been released
C3_Witness ==
    /\ Handled("KeyUp")
    /\ ~Mapped(ev.a) /\ InKeys(pre.keys, ev.a)
    /\ sent = <<>> /\ ~InKeys(keys, ev.a)

NoTimeout == \A i \in 1 .. Len(rets) : rets[i] >= 0

\* C5 (relative motion emission): a Move(x,y) handled with tracking enabled,
\* the port open and no timeout issues exactly |x-rx| horizontal commands (MouseRight if
\* x>rx, MouseLeft if x<rx) and |y-ry| vertical commands (MouseDown if y>ry,
\* MouseUp if y<ry), and currentMouse ends at (x,y).
C5_RelativeMotion ==
    (Handled("Move") /\ port = "open" /\ mouseTrack /\ NoTimeout) =>
        /\ Count(sent, USB_MouseRight) = (IF ev.x > pre.cm.x THEN ev.x - pre.cm.x ELSE 0)
        /\ Count(sent, USB_MouseLeft) = (IF ev.x < pre.cm.x THEN pre.cm.x - ev.x ELSE 0)
        /\ Count(sent, USB_MouseDown) = (IF ev.y > pre.cm.y THEN ev.y - pre.cm.y ELSE 0)
        /\ Count(sent, USB_MouseUp) = (IF ev.y < pre.cm.y THEN pre.cm.y - ev.y ELSE 0)
        /\ Len(sent) = Dist(pre.cm, Target)
        /\ currentMouse = Target

\* C6 (timeout aborts remaining steps): once a SerialSend issued for a Move
\* has returned a timeout/error, no further command is issued for that Move:
\* the failed command is the last one and the handler has returned.
C6_TimeoutAborts ==
    ev.type = "Move" =>
        \A i \in 1 .. Len(rets) :
            rets[i] < 0 => i = Len(sent) /\ pc = "ret"

\* the Move from (10,10) to (13,8) was cut short by a timeout on its second
\* command, with three commands still to go
C6_Witness ==
    /\ Handled("Move") /\ port = "open"
    /\ pre.cm = [x |-> 10, y |-> 10] /\ Target = [x |-> 13, y |-> 8]
    /\ sent = <<USB_MouseRight, USB_MouseUp>>
    /\ Len(rets) = 2 /\ rets[1] >= 0 /\ rets[2] < 0

\* C7 (reference point reflects only applied units): if the k-th command of
\* a Move times out on the open port, currentMouse has advanced by exactly k-1 units from its
\* value before the Move when the handler returns.
C7_ReferenceOnlyApplied ==
    (Handled("Move") /\ port = "open" /\ Len(rets) >= 1 /\ rets[Len(rets)] < 0) =>
        Dist(pre.cm, currentMouse) = Len(rets) - 1

\* C8 (send contract): with the port open, a SerialSend call writes its one
\* command byte once; it reads (one byte at most) only after a write of 1
\* byte, and then always; it returns the reply byte, 0..255, if one was read
\* and a negative value otherwise; nothing is written a second time.
C8_SendContract ==
    port = "open" =>
        /\ ss = "called" => io = <<>>
        /\ ss = "wrote" => io = <<[op |-> "write", byte |-> command, n |-> 1]>>
        /\ ss = "done" =>
              /\ Len(io) \in {1, 2}
              /\ io[1].op = "write" /\ io[1].byte = command
              /\ Len(io) = 2 <=> io[1].n = 1
              /\ Len(io) = 2 => io[2].op = "read"
              /\ Len(io) = 1 => ret < 0
              /\ (Len(io) = 2 /\ io[2].n = 1) => ret = io[2].byte /\ ret \in 0 .. 255
              /\ (Len(io) = 2 /\ io[2].n # 1) => ret < 0

\* a SerialSend on the open port wrote its byte, got no reply within the
\* timeout and is about to return
C8_Witness ==
    /\ port = "open" /\ ss = "done"
    /\ Len(io) = 2 /\ io[1].n = 1 /\ io[2].n = 0 /\ ret < 0

\* C9 (single outstanding command): at most one command is outstanding at
\* any time, and SerialSend is entered (a command is about to be written)
\* only when none is.
C9_SingleOutstanding ==
    /\ outstanding \in {0, 1}
    /\ outstanding = 1 <=> ss = "wrote"
    /\ ss = "called" => outstanding = 0

\* the second command of a Move is outstanding, the first having been
\* answered
C9_Witness ==
    /\ pc = "mv_y" /\ ss = "wrote" /\ outstanding = 1
    /\ Len(sent) = 2 /\ Len(rets) = 1 /\ rets[1] >= 0

\* InitSerialPort has returned with the port open
BroughtUp == pc = "ret" /\ ev.type = "none" /\ port = "open"

\* C10 (handshake classification): after bring-up a status reply in
\* 0x30..0x37 classifies the device as live; any other reply byte, or a
\* timeout at any handshake step, classifies it as not responding and that is
\* reported; the process does not terminate.
C10_HandshakeClassification ==
    /\ BroughtUp =>
          IF /\ sent[Len(sent)] = USB_StatusLEDRead
             /\ rets[Len(rets)] >= 48 /\ rets[Len(rets)] <= 55
            THEN printed = "live"
            ELSE printed = "noresp"
    /\ nEvents = 0 => pc # "exited"

C12_PrimaryOnTransitions ==
    (Handled("Button") /\ port = "open") =>
        /\ Count(sent, USB_MouseLeftButton) =
               (IF ~pre.buttons.primary /\ Buttons(ev.a).primary THEN 1 ELSE 0)
        /\ Count(sent, USB_MouseLeftButton + USB_BREAK) =
               (IF pre.buttons.primary /\ ~Buttons(ev.a).primary THEN 1 ELSE 0)
        /\ button0 = Buttons(ev.a).primary

\* C13 (enabling tracking is silent): a ButtonChange whose tracking bit goes
\* from clear to set makes mouseTrack true and sets currentMouse to the
\* pointer position GetCursorPos gives; it issues no command on account of
\* the tracking bit (whatever it issues is a primary-button command), and when
\* its primary bit is as it was it issues no command at all.  A ButtonChange
\* with the tracking bit clear makes mouseTrack false.  Stated of the open
\* port.
C13_TrackingSilent ==
    (Handled("Button") /\ port = "open") =>
        /\ (~pre.buttons.tracking /\ Buttons(ev.a).tracking) =>
              /\ mouseTrack
              /\ currentMouse = [x |-> ev.x, y |-> ev.y]
              /\ \A i \in 1 .. Len(sent) :
                     sent[i] \in {USB_MouseLeftButton, USB_MouseLeftButton + USB_BREAK}
              /\ pre.buttons.primary = Buttons(ev.a).primary => sent = <<>>
        /\ ~Buttons(ev.a).tracking => ~mouseTrack

\* the identifiers in keys whose scan code is c
HeldWithCode(c) == {k \in KeyIds : InKeys(keys, k) /\ KeyToMakeCode(k) = c}

\* C14 as claimed (rollover on the wire): for every scan code c, the make
\* commands with byte c minus the break commands with byte c+128 issued since
\* the last BufferClear is exactly 1 if some identifier in keys maps to c and
\* 0 otherwise.  Stated of the open port.
C14_RolloverOnWire ==
    port = "open" =>
        \A c \in KeyCodes : wireOpen[c] = (IF HeldWithCode(c) # {} THEN 1 ELSE 0)

\* C14 as amended: for every scan code c that difference is the number of
\* identifiers in keys that map to c (2 when two identifiers with the same
\* scan code are held), and for every identifier k with a non-zero scan code
\* the makes issued for k minus the breaks issued for k is 1 if k is in keys
\* and 0 otherwise, whatever happens to the other keys.
C14_RolloverPerIdentifier ==
    /\ \A c \in KeyCodes : wireOpen[c] = Cardinality(HeldWithCode(c))
    /\ \A k \in KeyIds :
           Mapped(k) => open[k] = (IF InKeys(keys, k) THEN 1 ELSE 0)

\* VK_SHIFT and VK_LSHIFT, which have the same scan code, were both held
\* (two makes of that code open); VK_SHIFT has been released, and one make
\* is left open for VK_LSHIFT
C14_Witness ==
    /\ Handled("KeyUp") /\ ev.a = VK_SHIFT
    /\ pre.keys = <<VK_SHIFT, VK_LSHIFT>> /\ keys = <<VK_LSHIFT>>
    /\ KeyToMakeCode(VK_SHIFT) = KeyToMakeCode(VK_LSHIFT)
    /\ wireOpen[KeyToMakeCode(VK_LSHIFT)] = 1
    /\ open[VK_LSHIFT] = 1 /\ open[VK_SHIFT] = 0

\* ks with every entry equal to vk left out, the others in their order
Without(ks, vk) == LET Other(x) == x # vk IN SelectSeq(ks, Other)

\* C15 (KeyUp translation): a KeyUp(id) with id not in keys issues nothing
\* and leaves keys as it was; with id in keys it removes exactly that
\* identifier and, when the scan code s of id is non-zero, issues exactly one
\* command, the byte s+128 (in 129..255), which is the byte of the make that
\* the KeyDown of id issued plus 128; when s is 0 it issues nothing.  The
\* first conjunct says it of the handler run on the identifiers drawn, the
\* second of the handler's parts on every identifier 0..255.
C15_KeyUpTranslation ==
    /\ ev.type = "KeyUp" =>
           /\ ~InKeys(pre.keys, ev.a) =>
                  sent = <<>> /\ ss = "idle" /\ keys = pre.keys
           /\ InKeys(pre.keys, ev.a) =>
                 /\ keys = Without(pre.keys, ev.a)
                 /\ Len(keys) = Len(pre.keys) - 1
                 /\ Mapped(ev.a) =>
                       /\ sent = <<KeyToMakeCode(ev.a) + USB_BREAK>>
                       /\ sent[1] \in 129 .. 255
                       /\ pre.make = KeyToMakeCode(ev.a)
                       /\ sent[1] = pre.make + USB_BREAK
                 /\ ~Mapped(ev.a) => sent = <<>> /\ ss = "idle"
    /\ pc = "start" =>
          \A id \in 0 .. 255 :
              /\ id # VK_SHIFT => /\ BreakCmds(<<VK_SHIFT>>, id) = <<>>
                                  /\ KeysAfterUp(<<VK_SHIFT>>, id) = <<VK_SHIFT>>
              /\ id \notin {VK_SHIFT, VK_LBUTTON} =>
                     KeysAfterUp(<<VK_SHIFT, id, VK_LBUTTON>>, id) = <<VK_SHIFT, VK_LBUTTON>>
              /\ Mapped(id) =>
                     /\ BreakCmds(<<id>>, id) = <<MakeCmds(<<>>, id)[1] + USB_BREAK>>
                     /\ BreakCmds(<<id>>, id)[1] \in 129 .. 255

\* the mapped key pressed first of three held keys has been released: its
\* break is the one command issued, the two other keys stay in keys
C15_Witness ==
    /\ Handled("KeyUp")
    /\ Len(pre.keys) = 3 /\ pre.keys[1] = ev.a /\ Mapped(ev.a)
    /\ keys = <<pre.keys[2], pre.keys[3]>>
    /\ sent = <<pre.make + USB_BREAK>>

\* a Move is being handled that follows a Move to abortedTo which a timeout
\* cut short; tracking is still enabled and the port open
FollowsAbortedMove ==
    /\ ev.type = "Move" /\ port = "open" /\ mouseTrack
    /\ abortedTo # NoPoint

HandshakeSeq ==
    IF KM232 # 0 THEN <<USB_BufferClear, USB_MouseFast, USB_StatusLEDRead>>
    ELSE <<USB_BufferClear, USB_StatusLEDRead>>

\* InitSerialPort is running or has just returned
InBringUp == ev.type = "none" /\ pc \in {"hs_clear", "hs_fast", "hs_status", "ret"}

\* C18 (handshake order and gating): the commands issued during bring-up
\* are a prefix of BufferClear, the speed-mode command (in the build that has
\* it), StatusLEDRead, in that order; a command after the first is issued only
\* if every earlier one returned a reply (>= 0), so a timeout on BufferClear
\* leaves exactly one command issued; with every command answered the whole
\* sequence is issued; nothing is issued unless the port was opened.
C18_HandshakeOrder ==
    InBringUp =>
        /\ Len(sent) <= Len(HandshakeSeq)
        /\ sent = SubSeq(HandshakeSeq, 1, Len(sent))
        /\ Len(rets) <= Len(sent)
        /\ Len(sent) >= 1 => Len(rets) >= Len(sent) - 1
        /\ \A i \in 1 .. Len(rets) : i < Len(sent) => rets[i] >= 0
        /\ (Len(rets) >= 1 /\ rets[1] < 0) => sent = <<USB_BufferClear>>
        /\ (pc = "ret" /\ port = "open" /\ NoTimeout) => sent = HandshakeSeq
        /\ port # "open" => sent = <<>>
        /\ KM232 = 0 => Count(sent, USB_MouseFast) = 0

\* BufferClear timed out on the open port: InitSerialPort has returned with
\* that one command issued
C18_Witness ==
    /\ InBringUp /\ pc = "ret" /\ port = "open"
    /\ sent = <<USB_BufferClear>> /\ Len(rets) = 1 /\ rets[1] < 0

\* C20 (scan-code table range): the table has 256 entries, each in 0..127;
\* KeyToMakeCode(id) is the entry at id mod 256 for every 16-bit id; so every
\* make command is a byte in 1..127 and every break command, the make plus
\* 128, a byte in 129..255 that the unsigned char argument leaves as it is,
\* and no make byte equals a break byte.  The first conjunct says it of the
\* table and of the handler's parts on every 16-bit identifier, the second of
\* the commands the key handler issues in a run.
C20_TableRange ==
    /\ pc = "start" =>
          /\ Len(table) = 256
          /\ \A i \in 1 .. 256 : table[i] \in 0 .. 127
          /\ \A i, j \in 1 .. 256 : table[i] # 0 => table[i] # table[j] + USB_BREAK
          /\ \A id \in 0 .. 65535 :
                /\ KeyToMakeCode(id) = table[(id % 256) + 1]
                /\ ~Mapped(id) => MakeCmds(<<>>, id) = <<>>
                /\ Mapped(id) =>
                      /\ MakeCmds(<<>>, id) = <<KeyToMakeCode(id)>>
                      /\ MakeCmds(<<>>, id)[1] \in 1 .. 127
                      /\ BreakCmds(<<id>>, id) = <<KeyToMakeCode(id) + USB_BREAK>>
                      /\ BreakCmds(<<id>>, id)[1] \in 129 .. 255
    /\ ev.type = "KeyDown" => \A i \in 1 .. Len(sent) : sent[i] \in 1 .. 127
    /\ ev.type = "KeyUp" => \A i \in 1 .. Len(sent) : sent[i] \in 129 .. 255

\* the break of a key whose identifier is in the upper half of the table
\* (VK_LSHIFT, 0xA0) has been handed to SerialSend
C20_Witness ==
    /\ ev.type = "KeyUp" /\ ev.a >= 128 /\ ss = "called"
    /\ command = table[ev.a + 1] + USB_BREAK
    /\ command \in 129 .. 255

\* C21 (PressedKeySet shape): keys never holds an identifier twice; a
\* KeyDown of a key that is not in keys appends it at the end (and a KeyDown
\* of a key that is in keys leaves keys as it is); a KeyUp removes the
\* released key only, the other keys keeping their order.  The last conjunct
\* says it of the handler's parts on every identifier 0..255.
C21_KeySetShape ==
    /\ \A i, j \in 1 .. Len(keys) : i # j => keys[i] # keys[j]
    /\ ev.type = "KeyDown" =>
           keys = (IF InKeys(pre.keys, ev.a) THEN pre.keys ELSE Append(pre.keys, ev.a))
    /\ ev.type = "KeyUp" => keys = Without(pre.keys, ev.a)
    /\ pc = "start" =>
          \A id \in (0 .. 255) \ {VK_SHIFT, VK_LBUTTON} :
              /\ KeysAfterDown(<<VK_SHIFT, VK_LBUTTON>>, id) = <<VK_SHIFT, VK_LBUTTON, id>>
              /\ KeysAfterDown(<<VK_SHIFT, id, VK_LBUTTON>>, id) = <<VK_SHIFT, id, VK_LBUTTON>>
              /\ KeysAfterUp(<<VK_SHIFT, id, VK_LBUTTON>>, id) = <<VK_SHIFT, VK_LBUTTON>>
              /\ KeysAfterUp(<<VK_SHIFT, VK_LBUTTON>>, id) = <<VK_SHIFT, VK_LBUTTON>>

\* of three held keys the one pressed second has been released; the first
\* and the third stay, in that order
C21_Witness ==
    /\ Handled("KeyUp")
    /\ Len(pre.keys) = 3 /\ pre.keys[2] = ev.a
    /\ keys = <<pre.keys[1], pre.keys[3]>>

\* C22 (Move is gated by tracking): a Move event received while mouseTrack
\* is false calls SerialSend for nothing and leaves currentMouse, mouseTrack,
\* button0 and keys as they were, wherever the pointer is.
C22_MoveGated ==
    (ev.type = "Move" /\ ~pre.track) =>
        /\ pc = "ret" /\ sent = <<>> /\ ss = "idle" /\ io = <<>>
        /\ currentMouse = pre.cm /\ mouseTrack = pre.track
        /\ button0 = pre.b0 /\ keys = pre.keys

\* tracking was enabled and disabled again, the primary button and a key
\* are held, and a Move to a point other than the reference point has been
\* handled on the open port
C22_Witness ==
    /\ Handled("Move") /\ port = "open" /\ ~pre.track
    /\ pre.cm \in Grid /\ Target # pre.cm
    /\ pre.b0 /\ pre.keys # <<>>
    /\ sent = <<>> /\ currentMouse = pre.cm

\* C23 (focus events without work are no-ops): FocusChanged(true) in any
\* state, and FocusChanged(false) while keys is empty, call SerialSend for
\* nothing (no BufferClear in particular) and leave keys, currentMouse,
\* mouseTrack and button0 as they were.
C23_FocusNoOp ==
    (ev.type = "Focus" /\ (ev.a = 1 \/ pre.keys = <<>>)) =>
        /\ pc = "ret" /\ sent = <<>> /\ ss = "idle" /\ io = <<>>
        /\ keys = pre.keys
        /\ currentMouse = pre.cm /\ mouseTrack = pre.track /\ button0 = pre.b0

\* focus was gained with two keys held and tracking enabled: nothing issued,
\* the two keys still held
C23_Witness ==
    /\ Handled("Focus") /\ ev.a = 1 /\ port = "open"
    /\ Len(pre.keys) = 2 /\ pre.track
    /\ sent = <<>> /\ keys = pre.keys /\ mouseTrack

\* C24 (wheel events are silent): a mouse event of the vertical or of the
\* horizontal wheel calls SerialSend for nothing and leaves currentMouse,
\* mouseTrack, button0 and keys as they were.
C24_WheelSilent ==
    (ev.type = "Wheel" /\ ev.a \in {MOUSE_WHEELED, MOUSE_HWHEELED}) =>
        /\ pc = "ret" /\ sent = <<>> /\ ss = "idle" /\ io = <<>>
        /\ currentMouse = pre.cm /\ mouseTrack = pre.track
        /\ button0 = pre.b0 /\ keys = pre.keys

\* a vertical wheel event has been handled with tracking enabled, the
\* primary button latched and a key held, on the open port
C24_Witness ==
    /\ Handled("Wheel") /\ ev.a = MOUSE_WHEELED /\ port = "open"
    /\ pre.track /\ pre.b0 /\ pre.keys # <<>>
    /\ sent = <<>> /\ mouseTrack /\ button0

\* the write records among what a SerialSend call did on the port
Writes(ops) == {i \in 1 .. Len(ops) : ops[i].op = "write"}

\* C25 (fire-and-forget state updates): keys, button0 and mouseTrack after
\* an event, and the key and button commands handed to SerialSend for it, are
\* functions of the event and of keys, button0 and mouseTrack before it alone;
\* no reply, timeout or error enters them, and after bring-up, whatever its
\* outcome, keys is empty and button0 and mouseTrack are false.  So two runs
\* fed the same events agree on them after every event whatever the device
\* replies.  A command is handed to SerialSend once and written at most once,
\* and a timeout on it leaves the change of keys in place.
C25_FireAndForget ==
    /\ (nEvents = 0 /\ pc # "start") => keys = <<>> /\ ~button0 /\ ~mouseTrack
    /\ ev.type = "KeyDown" =>
          /\ keys = (IF InKeys(pre.keys, ev.a) THEN pre.keys ELSE Append(pre.keys, ev.a))
          /\ sent = (IF ~InKeys(pre.keys, ev.a) /\ table[ev.a + 1] # 0
                       THEN <<table[ev.a + 1]>> ELSE <<>>)
    /\ ev.type = "KeyUp" =>
          /\ keys = Without(pre.keys, ev.a)
          /\ sent = (IF InKeys(pre.keys, ev.a) /\ table[ev.a + 1] # 0
                       THEN <<table[ev.a + 1] + USB_BREAK>> ELSE <<>>)
    /\ ev.type = "Focus" =>
          /\ keys = (IF ev.a = 0 THEN <<>> ELSE pre.keys)
          /\ sent = (IF ev.a = 0 /\ pre.keys # <<>> THEN <<USB_BufferClear>> ELSE <<>>)
    /\ ev.type \in {"Button", "Move", "Wheel", "Resize", "Menu", "Unknown"} =>
          keys = pre.keys
    /\ ev.type = "Button" =>
          sent = (IF Buttons(ev.a).primary THEN <<USB_MouseLeftButton>>
                  ELSE IF pre.b0 THEN <<USB_MouseLeftButton + USB_BREAK>>
                  ELSE <<>>)
    /\ Handled("Button") =>
          button0 = Buttons(ev.a).primary /\ mouseTrack = Buttons(ev.a).tracking
    /\ (ev.type \notin {"Button", "none"}) =>
          button0 = pre.b0 /\ mouseTrack = pre.track
    /\ ev.type \in {"KeyDown", "KeyUp", "Focus", "Button"} =>
          /\ Len(sent) <= 1 /\ Len(rets) <= Len(sent)
          /\ Cardinality(Writes(io)) <= 1
          /\ \A i \in Writes(io) : io[i].byte = sent[1]

\* the make of a key pressed while another is held got no reply on the open
\* port: the handler has returned, the key is in keys, nothing was sent twice
C25_Witness ==
    /\ Handled("KeyDown") /\ port = "open"
    /\ Len(pre.keys) = 1 /\ keys = Append(pre.keys, ev.a)
    /\ Len(sent) = 1 /\ Len(rets) = 1 /\ rets[1] < 0

\* the non-zero entries of the scan-code table
TableCodes == {table[i] : i \in 1 .. 256} \ {0}

\* the bytes the claim allows after bring-up
WireAlphabet ==
    {USB_BufferClear, USB_MouseLeft, USB_MouseRight, USB_MouseUp, USB_MouseDown,
     USB_MouseLeftButton, USB_MouseLeftButton + USB_BREAK}
      \cup TableCodes \cup {c + USB_BREAK : c \in TableCodes}

\* the button and wheel commands that are declared and have no sender
UnusedCommands ==
    {USB_MouseRightButton, USB_MouseMiddleButton, USB_ScrollWheelUp, USB_ScrollWheelDown}

\* C26 (wire alphabet): every command issued after bring-up, and every byte
\* written on the port for it, is BufferClear, MouseLeft/Right/Up/Down,
\* MouseLeftButton, MouseLeftButton+128, a non-zero table entry or such an
\* entry plus 128; a button event issues primary-button commands only,
\* whatever its other bits; MouseRightButton, MouseMiddleButton,
\* ScrollWheelUp/Down and their break forms are never issued and are not in
\* that alphabet.
C26_WireAlphabet ==
    /\ ev.type # "none" =>
          /\ \A i \in 1 .. Len(sent) :
                 /\ sent[i] \in WireAlphabet
                 /\ sent[i] \notin UnusedCommands
                 /\ sent[i] - USB_BREAK \notin UnusedCommands
          /\ \A i \in Writes(io) : io[i].byte \in WireAlphabet /\ io[i].byte = command
          /\ ss # "idle" => command \in WireAlphabet
    /\ ev.type = "Button" =>
          \A i \in 1 .. Len(sent) :
              sent[i] \in {USB_MouseLeftButton, USB_MouseLeftButton + USB_BREAK}
    /\ ev.type = "Move" =>
          \A i \in 1 .. Len(sent) :
              sent[i] \in {USB_MouseLeft, USB_MouseRight, USB_MouseUp, USB_MouseDown}
    /\ ev.type \in {"Wheel", "Resize", "Menu", "Unknown"} => sent = <<>>
    /\ pc = "start" =>
          \A u \in UnusedCommands : u \notin WireAlphabet /\ u + USB_BREAK \notin WireAlphabet

\* a button event with the rightmost and the middle button down and the
\* primary button released has written the primary break on the open port
\* and nothing else
C26_Witness ==
    /\ Handled("Button") /\ port = "open"
    /\ ev.a = RIGHTMOST_BUTTON_PRESSED + FROM_LEFT_2ND_BUTTON_PRESSED
    /\ pre.b0 /\ sent = <<USB_MouseLeftButton + USB_BREAK>>
    /\ Len(rets) = 1 /\ rets[1] >= 0

DeviceCommands ==
    {USB_BufferClear, USB_MouseLeft, USB_MouseRight, USB_MouseUp, USB_MouseDown,
     USB_MouseLeftButton, USB_MouseRightButton, USB_MouseMiddleButton,
     USB_ScrollWheelUp, USB_ScrollWheelDown, USB_MouseSlow, USB_MouseFast,
     USB_StatusLEDRead}

\* the table against the command bytes, for all 256 indices: no entry is a
\* device command, every entry is below 128, and no make or break computed
\* from an entry is a device command or the break form of a button command
TableDisjoint ==
    /\ TableCodes \cap DeviceCommands = {}
    /\ \A c \in TableCodes :
          /\ c \in 1 .. 127
          /\ c + USB_BREAK \notin DeviceCommands
          /\ c + USB_BREAK \notin
                {USB_MouseLeftButton + USB_BREAK, USB_MouseRightButton + USB_BREAK,
                 USB_MouseMiddleButton + USB_BREAK}
    /\ \A vk \in 0 .. 255 :
          /\ KeyToMakeCode(vk) \notin DeviceCommands
          /\ \A i \in 1 .. Len(MakeCmds(<<>>, vk)) : MakeCmds(<<>>, vk)[i] \notin DeviceCommands
          /\ \A i \in 1 .. Len(BreakCmds(<<vk>>, vk)) :
                 /\ BreakCmds(<<vk>>, vk)[i] \notin DeviceCommands
                 /\ BreakCmds(<<vk>>, vk)[i] # USB_MouseLeftButton + USB_BREAK

\* C28 (key codes and device commands are disjoint): no entry of the
\* scan-code table equals a device command byte (0x38, 0x42..0x45, 0x49,
\* 0x4A, 0x4D, 0x57, 0x58, 0x6D, 0x6F, 0x7F), every entry is below 128, and
\* no entry plus 128 equals the break form of a button command; so for every
\* virtual-key code the make and the break that KeyDown and KeyUp issue, and
\* every command and port byte of a handled key event, is no device command
\* and no button break.
C28_NoCollision ==
    /\ TableDisjoint
    /\ ev.type \in {"KeyDown", "KeyUp"} =>
          /\ \A i \in 1 .. Len(sent) :
                 /\ sent[i] \notin DeviceCommands
                 /\ sent[i] # USB_MouseLeftButton + USB_BREAK
          /\ \A i \in Writes(io) :
                 /\ io[i].byte \notin DeviceCommands
                 /\ io[i].byte # USB_MouseLeftButton + USB_BREAK
          /\ ss # "idle" => command \notin DeviceCommands

\* the SerialSend call of a key release has put the key's break byte on the
\* open port, and the byte is not the break form of any device command
C28_Witness ==
    /\ ev.type = "KeyUp" /\ port = "open" /\ ss = "done"
    /\ sent = <<command>> /\ command > USB_BREAK
    /\ \E i \in Writes(io) : io[i].byte = command /\ io[i].n = 1
    /\ command \notin {c + USB_BREAK : c \in DeviceCommands}

\* C29 (focus loss does not touch the mouse tracker): a focus event, lost or
\* gained, leaves button0, mouseTrack and currentMouse as they were and
\* issues no primary-button make or break (its only command is BufferClear);
\* button0 changes in button events only, a primary-button break is issued
\* only by a button event with the primary bit clear while button0 is set,
\* and a button event that finds button0 set either leaves it set or has
\* issued that break.
C29_FocusKeepsMouse ==
    /\ ev.type = "Focus" =>
          /\ button0 = pre.b0 /\ mouseTrack = pre.track /\ currentMouse = pre.cm
          /\ \A i \in 1 .. Len(sent) : sent[i] = USB_BufferClear
          /\ ss # "idle" => command = USB_BufferClear
          /\ \A i \in Writes(io) : io[i].byte = USB_BufferClear
    /\ ev.type \notin {"none", "Button"} => button0 = pre.b0
    /\ \A i \in 1 .. Len(sent) :
          sent[i] = USB_MouseLeftButton + USB_BREAK =>
              /\ ev.type = "Button"
              /\ ~Pressed(ev.a, FROM_LEFT_1ST_BUTTON_PRESSED)
              /\ pre.b0
    /\ (Handled("Button") /\ pre.b0) =>
          \/ button0 /\ Pressed(ev.a, FROM_LEFT_1ST_BUTTON_PRESSED)
          \/ ~button0 /\ sent = <<USB_MouseLeftButton + USB_BREAK>>

\* focus was lost with keys held, the primary button latched and tracking
\* enabled: BufferClear was issued and the tracker is as it was
C29_Witness ==
    /\ Handled("Focus") /\ ev.a = 0 /\ port = "open"
    /\ pre.keys # <<>> /\ pre.b0 /\ pre.track
    /\ sent = <<USB_BufferClear>>
    /\ button0 /\ mouseTrack /\ currentMouse = pre.cm

MinOf(a, b) == IF a < b THEN a ELSE b
MaxOf(a, b) == IF a > b THEN a ELSE b

\* the gaps |dx|, |dy| between the target of the Move being handled and the
\* reference point it found, and the part of each that has been covered
GapX == Abs(Target.x - pre.cm.x)
GapY == Abs(Target.y - pre.cm.y)
DoneX == Abs(currentMouse.x - pre.cm.x)
DoneY == Abs(currentMouse.y - pre.cm.y)

\* the Move handler is inside its loop or inside a SerialSend called from it
InMove == ev.type = "Move" /\ pc \in {"mv_top", "mv_x", "mv_y"}

\* what is left of the handling of a Move: the iterations that can still
\* start, and the position inside the current one
MoveRank ==
    10 * (MaxOf(GapX, GapY) - iters)
      + (CASE pc = "mv_x" -> (IF ss = "called" THEN 7 ELSE IF ss = "wrote" THEN 6 ELSE 5)
           [] pc = "mv_y" -> (IF ss = "called" THEN 4 ELSE IF ss = "wrote" THEN 3 ELSE 2)
           [] pc = "mv_top" -> 1
           [] OTHER -> 0)

\* the bounds of the loop and the progress of its iterations
C30_LoopBounds ==
    /\ ev.type # "Move" => iters = 0
    /\ ev.type = "Move" =>
          /\ ~pre.track => iters = 0 /\ sent = <<>>
          /\ iters <= MaxOf(GapX, GapY)
          /\ Len(sent) = DoneX + DoneY
          /\ Len(sent) <= GapX + GapY
          /\ Abs(Target.x - currentMouse.x) = GapX - DoneX
          /\ Abs(Target.y - currentMouse.y) = GapY - DoneY
          /\ DoneX = MinOf(iters, GapX)
          /\ DoneY \in {MinOf(iters, GapY), MinOf(MaxOf(iters - 1, 0), GapY)}
          /\ pc \in {"mv_top", "mv_y"} => DoneY = MinOf(iters, GapY)
          /\ (pc = "ret" /\ DoneY # MinOf(iters, GapY)) =>
                \/ /\ rets # <<>> /\ rets[Len(rets)] < 0
                   /\ sent[Len(sent)] \in {USB_MouseLeft, USB_MouseRight}
                \/ iters = 1 /\ GapX = 0 /\ sent = <<>> /\ rets = <<>>
          /\ InMove => MoveRank > 0
                         /\ ENABLED (MoveLoop \/ MoveAfterX \/ MoveAfterY
                                       \/ SerialSendWrite \/ SerialSendRead)

\* every step of the handling of a Move stays in that handling and lowers MoveRank
C30_Step == InMove => (ev' = ev /\ pre' = pre /\ MoveRank' < MoveRank /\ MoveRank' >= 0)

\* C30 as claimed: when the handling of a Move has ended, and between two
\* iterations, every iteration so far has moved the reference point one
\* unit closer on every axis whose gap was non-zero, within the bounds on
\* iterations and writes.
C30_EachIterationEveryAxis ==
    ev.type = "Move" =>
        /\ iters <= MaxOf(GapX, GapY)
        /\ Len(sent) <= GapX + GapY
        /\ Abs(Target.x - currentMouse.x) = GapX - DoneX
        /\ Abs(Target.y - currentMouse.y) = GapY - DoneY
        /\ pc \in {"mv_top", "ret"} =>
              DoneX = MinOf(iters, GapX) /\ DoneY = MinOf(iters, GapY)

\* C30 (Move translation terminates): for every reference point, target and
\* pattern of replies and timeouts the handling of a Move ends: every step
\* of it can be taken and lowers a rank that is never negative.  It runs at
\* most max(|dx|,|dy|) iterations and issues at most |dx|+|dy| commands, as
\* many as units moved, never past the target.  Every iteration moves the
\* reference point one unit closer on the x axis when the x gap is
\* non-zero, and one unit closer on the y axis when the y gap is non-zero
\* unless a negative result ended the iteration before the vertical step
\* (the horizontal command timed out, or no horizontal step was due in the
\* first iteration and the unassigned result was read as negative).
C30_MoveTerminates == []C30_LoopBounds /\ [][C30_Step]_vars

\* a Move with both gaps above one has ended in its second iteration: the
\* second horizontal command timed out, the vertical step was not made
C30_Witness ==
    /\ Handled("Move") /\ port = "open"
    /\ GapX >= 2 /\ GapY >= 2 /\ iters = 2
    /\ Len(sent) = 3 /\ rets[3] < 0 /\ rets[1] >= 0 /\ rets[2] >= 0
    /\ DoneX = 2 /\ DoneY = 1

Next ==
    \/ InitSerialPort_Open
    \/ InitSerialPort_Resume
    \/ MainNextRecord
    \/ SerialSendWrite
    \/ SerialSendRead
    \/ KeyEventProc_Down
    \/ KeyEventProc_Up
    \/ KeyEventProc_Return
    \/ FocusEventProc
    \/ FocusEventProc_Return
    \/ MouseEventProc_Button
    \/ MouseEventProc_ButtonResume
    \/ MouseEventProc_Move
    \/ MoveLoop
    \/ MoveAfterX
    \/ MoveAfterY
    \/ MouseEventProc_Other
    \/ MainIgnoredEvent
    \/ MainUnknownEvent

\* C17 (unrecognized event is fatal): when the input source delivers a
\* record of an unrecognized type, the saved console input mode is restored
\* and the process terminates: that record is the last one dispatched, no
\* SerialSend is called for it or after it, and no step of the program
\* follows.  The console mode is the relay's own until then.
C17_UnknownEventFatal ==
    /\ ev.type = "Unknown" =>
          /\ pc = "exited" /\ consoleMode = "restored"
          /\ sent = <<>> /\ ss = "idle" /\ io = <<>> /\ outstanding = 0
    /\ pc = "exited" => ev.type = "Unknown" /\ ~ENABLED Next
    /\ pc # "exited" => consoleMode = "relay"

\* the process has exited on an unrecognized record that came as the third
\* record, with a key held and fewer than MaxEvents records dispatched
C17_Witness ==
    /\ pc = "exited" /\ consoleMode = "restored"
    /\ ev.type = "Unknown" /\ nEvents = 3 /\ nEvents < MaxEvents
    /\ keys # <<>>

\* ---------------------------------------------------------------------
\* Bring-up followed by key input only, with fairness
\* ---------------------------------------------------------------------

\* the steps the program takes by itself: every call returns, the port
\* write and read within their 50 ms timeouts
ProgramSteps ==
    \/ InitSerialPort_Open
    \/ InitSerialPort_Resume
    \/ MainNextRecord
    \/ SerialSendWrite
    \/ SerialSendRead
    \/ KeyEventProc_Return

\* the input source hands a key record to the program waiting in
\* ReadConsoleInput
InputSteps ==
    \/ KeyEventProc_Down
    \/ KeyEventProc_Up

BringUpNext == ProgramSteps \/ InputSteps

\* the program goes on whenever it can, and input arrives while it waits
FairSpec ==
    Init /\ [][BringUpNext]_vars /\ WF_vars(ProgramSteps) /\ WF_vars(InputSteps)

\* C19 (bring-up failure is non-fatal): whatever the outcome of bring-up
\* (port not found, open denied, timeout at any handshake step, any status
\* reply), InitSerialPort returns, the event loop is eventually entered with
\* no record dispatched yet, and a record is eventually dispatched to its
\* handler; the process never exits during bring-up.
C19_BringUpNonFatal ==
    /\ <>(pc = "ret" /\ ev.type = "none")
    /\ <>(pc = "loop" /\ nEvents = 0 /\ ss = "idle")
    /\ <>(nEvents >= 1 /\ ev.type \in {"KeyDown", "KeyUp"})
    /\ [](nEvents = 0 => pc # "exited")

\* the port was found and not opened, and the first key record has been
\* dispatched and handled
C19_Witness ==
    /\ port = "closed" /\ nEvents = 1
    /\ Handled("KeyDown") /\ keys = <<ev.a>>

Spec == Init /\ [][Next]_vars

====
